---- MODULE Spec2Model ----
(***************************************************************************)
(* Hot Blast Stove heat-balance dashboard (src/main.py).                   *)
(*                                                                         *)
(* The heat-balance functions, the dataset helpers and the what-if script  *)
(* run are modelled.  Python floats are modelled as exact rationals        *)
(* [n, d] in lowest terms with d > 0; every arithmetic step of the source  *)
(* is an operation on such rationals.                                      *)
(***************************************************************************)
EXTENDS Integers, Sequences, FiniteSets, TLC

VARIABLES pc, call, ret, ret2, df, eff_low, shell_high, cycle_long,
          stove_select, latest, form, out, exc

vars == <<pc, call, ret, ret2, df, eff_low, shell_high, cycle_long,
          stove_select, latest, form, out, exc>>

(***************************************************************************)
(* Bounds of the model.                                                    *)
(***************************************************************************)
\* heat terms passed to calculate_efficiency range over -MaxQ/2 .. MaxQ/2
MaxQ == 3
\* loss terms passed to calculate_efficiency range over -MaxLoss/2 .. MaxLoss/2
MaxLoss == 1
\* longest efficiency sequence passed to get_condition_index
MaxLen == 6
\* largest single efficiency value (in tenths) of such a sequence
MaxEff == 2
\* longest dataset passed to get_latest_cycle
MaxRows == 3
\* longest uploaded dataset of a dashboard run
MaxUpload == 2

(***************************************************************************)
(* Float arithmetic, as exact rationals.                                   *)
(***************************************************************************)
Abs(x) == IF x < 0 THEN -x ELSE x

RECURSIVE Gcd(_, _)
Gcd(a, b) == IF b = 0 THEN a ELSE Gcd(b, a % b)

\* the rational n/d (d # 0) in lowest terms with a positive denominator
R(n, d) ==
    LET g == Gcd(Abs(n), Abs(d))
        s == IF d < 0 THEN -1 ELSE 1
    IN  [n |-> (s * n) \div g, d |-> (s * d) \div g]

Num(i) == [n |-> i, d |-> 1]

RAdd(a, b) == R(a.n * b.d + b.n * a.d, a.d * b.d)
RSub(a, b) == R(a.n * b.d - b.n * a.d, a.d * b.d)
RMul(a, b) == R(a.n * b.n, a.d * b.d)
\* a / b for b # 0
RDiv(a, b) == R(a.n * b.d, a.d * b.n)
RLt(a, b) == a.n * b.d < b.n * a.d
RLe(a, b) == a.n * b.d <= b.n * a.d

\* Python's builtin min(a, b) / max(a, b): the first argument wins ties
PyMin(a, b) == IF RLt(b, a) THEN b ELSE a
PyMax(a, b) == IF RLt(a, b) THEN b ELSE a

(***************************************************************************)
(* Outcomes of a call: a returned value or a raised exception.             *)
(***************************************************************************)
Return(v) == [kind |-> "return", val |-> <<v>>, exc |-> "None"]
Raise(e) == [kind |-> "raise", val |-> <<>>, exc |-> e]
NoRet == [kind |-> "none", val |-> <<>>, exc |-> "None"]
NoCall == [fn |-> "none", args |-> <<>>]

(***************************************************************************)
(* Heat-balance functions.                                                 *)
(***************************************************************************)
calculate_heat_input(m_fuel, cv_fuel, eta_comb, m_air_comb, cp_air, t_air_comb, t_ambient) ==
    LET Q_fuel == RMul(RMul(m_fuel, cv_fuel), eta_comb)
        Q_air_comb == RMul(RMul(m_air_comb, cp_air), RSub(t_air_comb, t_ambient))
    IN  <<Q_fuel, Q_air_comb>>

calculate_heat_output(m_air, cp_air, t_hot_blast, t_ambient) ==
    RMul(RMul(m_air, cp_air), RSub(t_hot_blast, t_ambient))

calculate_flue_loss(m_flue, cp_flue, t_flue, t_ref) ==
    RMul(RMul(m_flue, cp_flue), RSub(t_flue, t_ref))

\* clamp dropped: the ratio is only floored at 0
calculate_efficiency_noclamp(Q_blast, Q_fuel, Q_air_comb, Q_flue, Q_shell) ==
    LET total_input == RAdd(Q_fuel, Q_air_comb)
    IN  IF RLe(total_input, Num(0)) THEN Num(0)
        ELSE PyMax(Num(0), RDiv(Q_blast, total_input))

\* guard tests total_input == 0 instead of total_input <= 0
calculate_efficiency_eqguard(Q_blast, Q_fuel, Q_air_comb, Q_flue, Q_shell) ==
    LET total_input == RAdd(Q_fuel, Q_air_comb)
    IN  IF total_input = Num(0) THEN Num(0)
        ELSE PyMax(Num(0), PyMin(RDiv(Q_blast, total_input), Num(1)))

\* losses subtracted from the useful heat
calculate_efficiency_netloss(Q_blast, Q_fuel, Q_air_comb, Q_flue, Q_shell) ==
    LET total_input == RAdd(Q_fuel, Q_air_comb)
    IN  IF RLe(total_input, Num(0)) THEN Num(0)
        ELSE PyMax(Num(0), PyMin(RDiv(RSub(RSub(Q_blast, Q_flue), Q_shell), total_input), Num(1)))

calculate_efficiency(Q_blast, Q_fuel, Q_air_comb, Q_flue, Q_shell) ==
    LET total_input == RAdd(Q_fuel, Q_air_comb)
    IN  IF RLe(total_input, Num(0)) THEN Num(0)
        ELSE LET efficiency == RDiv(Q_blast, total_input)
             IN  PyMax(Num(0), PyMin(efficiency, Num(1)))

(***************************************************************************)
(* Specification SpecEfficiency: calculate_efficiency called on arbitrary  *)
(* heat terms, then called again with other loss terms.                    *)
(***************************************************************************)
QValues == {R(i, 2) : i \in -MaxQ..MaxQ}
LossValues == {R(i, 2) : i \in -MaxLoss..MaxLoss}

EffArgs ==
    [Q_blast : QValues, Q_fuel : QValues, Q_air_comb : QValues,
     Q_flue : LossValues, Q_shell : LossValues]

Idle ==
    /\ df = <<>>
    /\ eff_low = Num(0)
    /\ shell_high = 0
    /\ cycle_long = 0
    /\ stove_select = "None"
    /\ latest = <<>>
    /\ form = <<>>
    /\ out = <<>>
    /\ exc = "None"

InitEfficiency ==
    /\ pc = "call"
    /\ call \in {[fn |-> "calculate_efficiency", args |-> a] : a \in EffArgs}
    /\ ret = NoRet
    /\ ret2 = NoRet
    /\ Idle

CallEfficiency ==
    /\ pc = "call"
    /\ call.fn = "calculate_efficiency"
    /\ LET a == call.args
       IN  ret' = Return(calculate_efficiency(a.Q_blast, a.Q_fuel, a.Q_air_comb, a.Q_flue, a.Q_shell))
    /\ pc' = "ret"
    /\ UNCHANGED <<call, ret2, df, eff_low, shell_high, cycle_long, stove_select, latest, form, out, exc>>

\* the same call with the loss terms replaced
CallEfficiencyAgain ==
    /\ pc = "ret"
    /\ call.fn = "calculate_efficiency"
    /\ \E qf \in LossValues, qs \in LossValues :
          /\ <<qf, qs>> # <<call.args.Q_flue, call.args.Q_shell>>
          /\ call' = [call EXCEPT !.args.Q_flue = qf, !.args.Q_shell = qs]
          /\ ret2' = Return(calculate_efficiency(call.args.Q_blast, call.args.Q_fuel,
                                                 call.args.Q_air_comb, qf, qs))
    /\ pc' = "ret2"
    /\ UNCHANGED <<ret, df, eff_low, shell_high, cycle_long, stove_select, latest, form, out, exc>>

NextEfficiency == CallEfficiency \/ CallEfficiencyAgain

SpecEfficiency == InitEfficiency /\ [][NextEfficiency]_vars

(***************************************************************************)
(* Properties of calculate_efficiency (SpecEfficiency).                    *)
(***************************************************************************)
EffReturned == pc \in {"ret", "ret2"} /\ call.fn = "calculate_efficiency"

\* numerator and denominator of Q_fuel + Q_air_comb, from the call's arguments
TotalN == call.args.Q_fuel.n * call.args.Q_air_comb.d + call.args.Q_air_comb.n * call.args.Q_fuel.d
TotalD == call.args.Q_fuel.d * call.args.Q_air_comb.d

\* C1: for every combination of heat terms, negative ones and Q_blast above
\* Q_fuel + Q_air_comb included, the returned efficiency lies in [0, 1].
C1_EfficiencyInUnitInterval ==
    EffReturned =>
        /\ ret.kind = "return"
        /\ 0 <= ret.val[1].n
        /\ ret.val[1].n <= ret.val[1].d

\* the unclamped ratio would exceed 1, one input is negative, and 1 came back
C1_Witness ==
    /\ pc = "ret"
    /\ call.fn = "calculate_efficiency"
    /\ call.args.Q_air_comb.n < 0
    /\ TotalN > 0
    /\ call.args.Q_blast.n * TotalD > TotalN * call.args.Q_blast.d
    /\ ret = Return(Num(1))

\* C2: whenever Q_fuel + Q_air_comb <= 0 the call returns exactly 0, as a
\* normal result, whatever Q_blast, Q_flue and Q_shell are.
C2_ZeroOnNonPositiveInput ==
    (EffReturned /\ TotalN <= 0) => ret = Return(Num(0))

\* a negative Q_air_comb outweighs a positive Q_fuel, Q_blast is not 0
C2_Witness ==
    /\ pc = "ret"
    /\ call.fn = "calculate_efficiency"
    /\ call.args.Q_fuel.n > 0
    /\ call.args.Q_air_comb.n < 0
    /\ TotalN < 0
    /\ call.args.Q_blast.n # 0
    /\ call.args.Q_flue.n # 0
    /\ ret = Return(Num(0))

\* C10: two calls that agree on Q_blast, Q_fuel and Q_air_comb and differ in
\* Q_flue and Q_shell return the same efficiency, and when
\* Q_fuel + Q_air_comb > 0 it is Q_blast / (Q_fuel + Q_air_comb) clamped to
\* [0, 1].
C10_EfficiencyIgnoresLosses ==
    /\ (pc = "ret2" /\ call.fn = "calculate_efficiency") => ret2 = ret
    /\ (EffReturned /\ TotalN > 0) =>
          LET qb == call.args.Q_blast
              e == ret.val[1]
          IN  CASE qb.n < 0 -> e = Num(0)
                [] qb.n * TotalD > TotalN * qb.d -> e = Num(1)
                [] OTHER -> e.n * qb.d * TotalN = e.d * qb.n * TotalD

\* the second call has returned, with different losses, an efficiency strictly
\* between 0 and 1
C10_Witness ==
    /\ pc = "ret2"
    /\ call.fn = "calculate_efficiency"
    /\ TotalN > 0
    /\ 0 < ret2.val[1].n
    /\ ret2.val[1].n < ret2.val[1].d

(***************************************************************************)
(* Dataset helpers.                                                        *)
(***************************************************************************)
\* df[df['stove_id'] == stove_id]: the matching rows, in dataset order
FilterStove(rows, stove_id) == SelectSeq(rows, LAMBDA r : r.stove_id = stove_id)

\* .iloc[-1]: the last row, IndexError on an empty frame
ILocLast(rows) ==
    IF Len(rows) = 0 THEN Raise("IndexError") ELSE Return(rows[Len(rows)])

\* first matching row instead of the last
get_latest_cycle_first(rows, stove_id) ==
    LET m == FilterStove(rows, stove_id)
    IN  IF Len(m) = 0 THEN Raise("IndexError") ELSE Return(m[1])

\* last row of the whole dataset, the filter dropped
get_latest_cycle_nofilter(rows, stove_id) == ILocLast(rows)

get_latest_cycle(rows, stove_id) == ILocLast(FilterStove(rows, stove_id))

get_historical_data(rows, stove_id) == FilterStove(rows, stove_id)

\* float('nan'), kept as 0/0
NaN == [n |-> 0, d |-> 0]

RECURSIVE np_sum(_)
np_sum(s) == IF Len(s) = 0 THEN Num(0) ELSE RAdd(np_sum(Tail(s)), Head(s))

\* np.mean: the mean of an empty sequence is nan (with a RuntimeWarning), not an exception
np_mean(s) == IF Len(s) = 0 THEN NaN ELSE RDiv(np_sum(s), Num(Len(s)))

\* efficiencies[-5:] for a sequence of length >= 5
LastFive(s) == SubSeq(s, Len(s) - 4, Len(s))

\* the first five elements averaged instead of the last five
get_condition_index_head(efficiencies) ==
    IF Len(efficiencies) >= 5 THEN Return(np_mean(SubSeq(efficiencies, 1, 5)))
    ELSE Return(np_mean(efficiencies))

get_condition_index(efficiencies) ==
    IF Len(efficiencies) >= 5 THEN Return(np_mean(LastFive(efficiencies)))
    ELSE Return(np_mean(efficiencies))

(***************************************************************************)
(* Specification SpecCondition: get_condition_index called on arbitrary    *)
(* sequences of efficiencies, the empty one included.                      *)
(***************************************************************************)
EffValues == {R(i, 10) : i \in 0..MaxEff}

SeqsUpTo(S, n) == UNION {[1..k -> S] : k \in 0..n}

InitCondition ==
    /\ pc = "call"
    /\ call \in {[fn |-> "get_condition_index", args |-> e] : e \in SeqsUpTo(EffValues, MaxLen)}
    /\ ret = NoRet
    /\ ret2 = NoRet
    /\ Idle

CallConditionIndex ==
    /\ pc = "call"
    /\ call.fn = "get_condition_index"
    /\ ret' = get_condition_index(call.args)
    /\ pc' = "ret"
    /\ UNCHANGED <<call, ret2, df, eff_low, shell_high, cycle_long, stove_select, latest, form, out, exc>>

NextCondition == CallConditionIndex

SpecCondition == InitCondition /\ [][NextCondition]_vars

(***************************************************************************)
(* Specification SpecLatest: get_latest_cycle called on arbitrary datasets *)
(* and stove ids.                                                          *)
(***************************************************************************)
StoveIds == {"S1", "S2"}

Rows == [stove_id : StoveIds, cycle_id : {"C1", "C2"}, timestamp : 1..2]

InitLatest ==
    /\ pc = "call"
    /\ df \in SeqsUpTo(Rows, MaxRows)
    /\ call \in {[fn |-> "get_latest_cycle", args |-> id] : id \in StoveIds \cup {"S3"}}
    /\ ret = NoRet
    /\ ret2 = NoRet
    /\ eff_low = Num(0)
    /\ shell_high = 0
    /\ cycle_long = 0
    /\ stove_select = "None"
    /\ latest = <<>>
    /\ form = <<>>
    /\ out = <<>>
    /\ exc = "None"

CallLatestCycle ==
    /\ pc = "call"
    /\ call.fn = "get_latest_cycle"
    /\ ret' = get_latest_cycle(df, call.args)
    /\ pc' = "ret"
    /\ UNCHANGED <<call, ret2, df, eff_low, shell_high, cycle_long, stove_select, latest, form, out, exc>>

NextLatest == CallLatestCycle

SpecLatest == InitLatest /\ [][NextLatest]_vars

(***************************************************************************)
(* Properties of get_condition_index (SpecCondition).                      *)
(***************************************************************************)
CondReturned == pc = "ret" /\ call.fn = "get_condition_index"

\* C3: for a non-empty sequence the result is the arithmetic mean of exactly
\* the last 5 elements when the length is at least 5 (5 included), and of all
\* elements when the length is 1 to 4.
C3_ConditionIndexWindow ==
    (CondReturned /\ Len(call.args) >= 1) =>
        LET e == call.args
            n == Len(e)
            m == ret.val[1]
        IN  /\ ret.kind = "return"
            /\ n >= 5 =>
                 RMul(m, Num(5)) =
                    RAdd(RAdd(RAdd(RAdd(e[n - 4], e[n - 3]), e[n - 2]), e[n - 1]), e[n])
            /\ n = 1 => m = e[1]
            /\ n = 2 => RMul(m, Num(2)) = RAdd(e[1], e[2])
            /\ n = 3 => RMul(m, Num(3)) = RAdd(RAdd(e[1], e[2]), e[3])
            /\ n = 4 => RMul(m, Num(4)) = RAdd(RAdd(RAdd(e[1], e[2]), e[3]), e[4])

\* a sequence longer than 5 whose first element differs from all the others
C3_Witness ==
    /\ CondReturned
    /\ Len(call.args) > 5
    /\ \A i \in 2..Len(call.args) : call.args[i] # call.args[1]
    /\ ret.kind = "return"
    /\ ret.val[1] = call.args[Len(call.args)]

\* C7: called with an empty sequence, get_condition_index fails with an
\* exception and returns no value, numeric or not-a-number.
C7_EmptyInputFails ==
    (CondReturned /\ Len(call.args) = 0) => (ret.kind = "raise" /\ ret.val = <<>>)

(***************************************************************************)
(* Properties of get_latest_cycle (SpecLatest).                            *)
(***************************************************************************)
Matches(i) == df[i].stove_id = call.args

\* C5: when some record has the requested stove_id, the call returns the
\* matching record at the greatest list position, whatever the timestamps and
\* the records of other stoves in between, and leaves the dataset as it was.
C5_LatestIsLastMatch ==
    [][(/\ pc = "call"
        /\ pc' = "ret"
        /\ call.fn = "get_latest_cycle"
        /\ \E i \in 1..Len(df) : Matches(i))
       => /\ df' = df
          /\ \E i \in 1..Len(df) :
                /\ Matches(i)
                /\ \A j \in (i + 1)..Len(df) : ~Matches(j)
                /\ ret' = Return(df[i])]_vars

\* the returned record is followed by a record of another stove and preceded
\* by a matching record with a later timestamp
C5_Witness ==
    /\ pc = "ret"
    /\ call.fn = "get_latest_cycle"
    /\ ret.kind = "return"
    /\ Len(df) = 3
    /\ Matches(1) /\ Matches(2) /\ ~Matches(3)
    /\ df[1].timestamp > df[2].timestamp
    /\ ret.val[1] = df[2]
    /\ df[1] # df[2]

\* C6: when no record of the dataset (an empty dataset included) has the
\* requested stove_id, the call fails with the lookup exception and returns
\* no record.
C6_NoMatchFails ==
    (/\ pc = "ret"
     /\ call.fn = "get_latest_cycle"
     /\ \A i \in 1..Len(df) : ~Matches(i))
    => ret = Raise("IndexError")

\* a non-empty dataset without the requested stove
C6_Witness ==
    /\ pc = "ret"
    /\ call.fn = "get_latest_cycle"
    /\ Len(df) >= 2
    /\ \A i \in 1..Len(df) : ~Matches(i)
    /\ ret.kind = "raise"

(***************************************************************************)
(* Shell loss.  The radiation term eps*sigma*A*(Ts^4 - Ta^4) is kept as    *)
(* its coefficient and its two Kelvin temperatures: the fourth powers are  *)
(* beyond the checker's integers, and the sum conduction + radiation is    *)
(* kept as the pair of its terms.  A zero thickness raises                 *)
(* ZeroDivisionError, as float division does.                              *)
(***************************************************************************)
Kelvin(t) == RAdd(t, R(27315, 100))

calculate_shell_loss(k, A, t_internal, t_surface, d, eps, sigma, t_ambient) ==
    IF d = Num(0) THEN Raise("ZeroDivisionError")
    ELSE LET conduction == RDiv(RMul(RMul(k, A), RSub(t_internal, t_surface)), d)
             radiation == [coef |-> RMul(RMul(eps, sigma), A),
                           Ts |-> Kelvin(t_surface), Ta |-> Kelvin(t_ambient)]
         IN  Return([conduction |-> conduction, radiation |-> radiation])

(***************************************************************************)
(* Dashboard configuration and widgets.                                    *)
(***************************************************************************)
THRESHOLDS == [efficiency_low |-> R(70, 100), shell_temp_high |-> 150, cycle_duration_long |-> 180]

\* st.sidebar.slider(label, min, max, default): the default or a value the
\* user dragged to, here the upper end of the range
Slider(min_value, max_value, default) == {default, max_value}

\* int(THRESHOLDS["efficiency_low"]*100)
EffLowDefault == (THRESHOLDS.efficiency_low.n * 100) \div THRESHOLDS.efficiency_low.d

\* the number_input widgets of the what-if form, in source order; max is <<>>
\* where no max_value is given
FormFields_dmin0 ==
    << [name |-> "m_fuel", min |-> Num(0), max |-> <<>>],
       [name |-> "cv_fuel", min |-> Num(0), max |-> <<>>],
       [name |-> "eta_combustion", min |-> Num(0), max |-> <<Num(1)>>],
       [name |-> "m_air", min |-> Num(0), max |-> <<>>],
       [name |-> "t_hot_blast", min |-> Num(0), max |-> <<>>],
       [name |-> "t_ambient", min |-> Num(0), max |-> <<>>],
       [name |-> "m_flue", min |-> Num(0), max |-> <<>>],
       [name |-> "t_flue", min |-> Num(0), max |-> <<>>],
       [name |-> "t_ref", min |-> Num(0), max |-> <<>>],
       [name |-> "k", min |-> Num(0), max |-> <<>>],
       [name |-> "A", min |-> Num(0), max |-> <<>>],
       [name |-> "t_internal", min |-> Num(0), max |-> <<>>],
       [name |-> "t_surface", min |-> Num(0), max |-> <<>>],
       [name |-> "d", min |-> Num(0), max |-> <<>>],
       [name |-> "eps", min |-> Num(0), max |-> <<Num(1)>>],
       [name |-> "m_air_comb", min |-> Num(0), max |-> <<>>],
       [name |-> "t_air_comb", min |-> Num(0), max |-> <<>>] >>

FormFields ==
    << [name |-> "m_fuel", min |-> Num(0), max |-> <<>>],
       [name |-> "cv_fuel", min |-> Num(0), max |-> <<>>],
       [name |-> "eta_combustion", min |-> Num(0), max |-> <<Num(1)>>],
       [name |-> "m_air", min |-> Num(0), max |-> <<>>],
       [name |-> "t_hot_blast", min |-> Num(0), max |-> <<>>],
       [name |-> "t_ambient", min |-> Num(0), max |-> <<>>],
       [name |-> "m_flue", min |-> Num(0), max |-> <<>>],
       [name |-> "t_flue", min |-> Num(0), max |-> <<>>],
       [name |-> "t_ref", min |-> Num(0), max |-> <<>>],
       [name |-> "k", min |-> Num(0), max |-> <<>>],
       [name |-> "A", min |-> Num(0), max |-> <<>>],
       [name |-> "t_internal", min |-> Num(0), max |-> <<>>],
       [name |-> "t_surface", min |-> Num(0), max |-> <<>>],
       [name |-> "d", min |-> R(1, 100), max |-> <<>>],
       [name |-> "eps", min |-> Num(0), max |-> <<Num(1)>>],
       [name |-> "m_air_comb", min |-> Num(0), max |-> <<>>],
       [name |-> "t_air_comb", min |-> Num(0), max |-> <<>>] >>

\* whether v lies within a widget's [min_value, max_value]
InRange(f, v) ==
    /\ RLe(f.min, v)
    /\ f.max # <<>> => RLe(v, f.max[1])

\* st.number_input(label, value=, min_value=, max_value=): a default outside
\* the widget's range raises StreamlitAPIException (value below min / above
\* max); otherwise the widget returns the default, or the in-range value the
\* user typed (edit = <<v>>)
number_input(f, value, edit) ==
    IF ~InRange(f, value) THEN Raise("StreamlitAPIException")
    ELSE IF edit # <<>> /\ InRange(f, edit[1]) THEN Return(edit[1])
    ELSE Return(value)

\* the edit the user typed into widget name, if any
EditOf(edits, name) == IF name \in DOMAIN edits THEN <<edits[name]>> ELSE <<>>

\* the form body: every number_input in source order, then sigma, cp_air and
\* cp_flue read straight from the latest record.  The first widget that
\* raises ends the script run.
whatif_form(rec, edits) ==
    LET w == [i \in 1..Len(FormFields) |->
                 number_input(FormFields[i], rec[FormFields[i].name],
                              EditOf(edits, FormFields[i].name))]
        bad == {i \in 1..Len(FormFields) : w[i].kind = "raise"}
        idx(name) == CHOOSE i \in 1..Len(FormFields) : FormFields[i].name = name
        val(name) == w[idx(name)].val[1]
    IN  IF bad # {} THEN Raise("StreamlitAPIException")
        ELSE Return([m_fuel |-> val("m_fuel"), cv_fuel |-> val("cv_fuel"),
                     eta_comb |-> val("eta_combustion"), m_air |-> val("m_air"),
                     t_hot_blast |-> val("t_hot_blast"), t_ambient |-> val("t_ambient"),
                     m_flue |-> val("m_flue"), t_flue |-> val("t_flue"),
                     t_ref |-> val("t_ref"), k |-> val("k"), A |-> val("A"),
                     t_internal |-> val("t_internal"), t_surface |-> val("t_surface"),
                     d |-> val("d"), eps |-> val("eps"), sigma |-> rec.sigma,
                     m_air_comb |-> val("m_air_comb"), t_air_comb |-> val("t_air_comb"),
                     cp_air |-> rec.cp_air, cp_flue |-> rec.cp_flue])

\* f"{x:.1f}": x >= 0 rounded to one decimal, as the number of tenths shown
\* (ties to even)
Format1f(x) ==
    LET t == RMul(x, Num(10))
        fl == t.n \div t.d
        r2 == 2 * (t.n % t.d)
    IN  IF r2 < t.d THEN fl
        ELSE IF r2 > t.d THEN fl + 1
        ELSE IF fl % 2 = 0 THEN fl ELSE fl + 1

\* the headline: f"Stove Efficiency: {eta_stove*89.83:.1f}%"
Headline(eta_stove) == Format1f(RMul(eta_stove, R(8983, 100)))

\* the 'Efficiency' value of result_df
TableEfficiency(eta_stove) == RMul(eta_stove, Num(100))

\* both comparisons non-strict
evaluate_alerts_nonstrict(eta_stove, t_surface, efflow, shellhigh) ==
    (IF RLe(eta_stove, efflow) THEN {"LowEfficiency"} ELSE {})
    \cup (IF RLe(Num(shellhigh), t_surface) THEN {"ShellOverheat"} ELSE {})

\* the two alert checks that close the what-if run
evaluate_alerts(eta_stove, t_surface, efflow, shellhigh) ==
    (IF RLt(eta_stove, efflow) THEN {"LowEfficiency"} ELSE {})
    \cup (IF RLt(Num(shellhigh), t_surface) THEN {"ShellOverheat"} ELSE {})

(***************************************************************************)
(* Uploaded datasets: rows over a few measurement records, valid ones and  *)
(* ones that break an input invariant.                                     *)
(***************************************************************************)
\* efficiency 7/10, surface temperature at the default alert threshold
BaseRecord ==
    [m_fuel |-> Num(10), cv_fuel |-> Num(1), eta_combustion |-> Num(1),
     m_air_comb |-> Num(1), cp_air |-> Num(1), t_air_comb |-> Num(25), t_ambient |-> Num(25),
     m_air |-> Num(1), t_hot_blast |-> Num(32),
     m_flue |-> Num(1), cp_flue |-> Num(1), t_flue |-> Num(30), t_ref |-> Num(25),
     k |-> R(1, 2), A |-> Num(2), t_internal |-> Num(200), t_surface |-> Num(150),
     d |-> R(1, 2), eps |-> R(4, 5), sigma |-> R(567, 10000)]

Measurements ==
    { BaseRecord,
      \* efficiency 3/5, shell above the threshold
      [BaseRecord EXCEPT !.t_hot_blast = Num(31), !.t_surface = Num(160)],
      \* ratio 2, clamped to 1; cool shell
      [BaseRecord EXCEPT !.t_hot_blast = Num(45), !.t_surface = Num(100)],
      \* combustion air colder than ambient: Q_fuel + Q_air_comb < 0
      [BaseRecord EXCEPT !.t_air_comb = Num(0)],
      \* zero shell thickness
      [BaseRecord EXCEPT !.d = Num(0)],
      \* emissivity above 1
      [BaseRecord EXCEPT !.eps = R(3, 2)],
      \* negative flue flow
      [BaseRecord EXCEPT !.m_flue = Num(-1)],
      \* combustion efficiency above 1
      [BaseRecord EXCEPT !.eta_combustion = R(11, 10)] }

\* a measurement as a row of the frame, with its stove_id column
Row(id, m) == [x \in {"stove_id"} \cup DOMAIN m |-> IF x = "stove_id" THEN id ELSE m[x]]

UploadRows == {Row(id, m) : id \in StoveIds, m \in Measurements}

\* what the user may type into the form before submitting: nothing, or one
\* field changed
Edits ==
    { <<>>,
      [x \in {"t_hot_blast"} |-> Num(45)],
      [x \in {"t_surface"} |-> Num(160)],
      [x \in {"d"} |-> R(1, 100)],
      [x \in {"t_air_comb"} |-> Num(0)] }

(***************************************************************************)
(* Specification Spec: one run of the dashboard script.                    *)
(***************************************************************************)
Init ==
    /\ pc = "start"
    /\ call = NoCall
    /\ ret = NoRet
    /\ ret2 = NoRet
    /\ Idle

\* no file uploaded: st.stop()
NoUpload ==
    /\ pc = "start"
    /\ pc' = "stopped"
    /\ UNCHANGED <<call, ret, ret2, df, eff_low, shell_high, cycle_long, stove_select, latest, form, out, exc>>

\* pd.read_csv(uploaded_file)
ReadCsv ==
    /\ pc = "start"
    /\ df' \in SeqsUpTo(UploadRows, MaxUpload)
    /\ pc' = "sidebar"
    /\ UNCHANGED <<call, ret, ret2, eff_low, shell_high, cycle_long, stove_select, latest, form, out, exc>>

\* the three threshold sliders
Sliders ==
    /\ pc = "sidebar"
    /\ \E s \in Slider(40, 90, EffLowDefault) : eff_low' = R(s, 100)
    /\ shell_high' \in Slider(80, 200, THRESHOLDS.shell_temp_high)
    /\ cycle_long' \in Slider(60, 300, THRESHOLDS.cycle_duration_long)
    /\ pc' = "select"
    /\ UNCHANGED <<call, ret, ret2, df, stove_select, latest, form, out, exc>>

\* st.sidebar.selectbox over sorted(df['stove_id'].unique()): one of the
\* options, None when there is none; then get_latest_cycle
SelectStove ==
    /\ pc = "select"
    /\ LET options == {df[i].stove_id : i \in 1..Len(df)}
       IN  stove_select' \in (IF options = {} THEN {"None"} ELSE options)
    /\ LET r == get_latest_cycle(df, stove_select')
       IN  IF r.kind = "raise"
           THEN /\ exc' = r.exc
                /\ pc' = "error"
                /\ UNCHANGED latest
           ELSE /\ latest' = r.val
                /\ pc' = "form"
                /\ UNCHANGED exc
    /\ UNCHANGED <<call, ret, ret2, df, eff_low, shell_high, cycle_long, form, out>>

\* the what-if form and its submit button
WhatIfForm ==
    /\ pc = "form"
    /\ \E edits \in Edits, submitted \in BOOLEAN :
          LET r == whatif_form(latest[1], edits)
          IN  IF r.kind = "raise"
              THEN /\ exc' = r.exc
                   /\ pc' = "error"
                   /\ UNCHANGED form
              ELSE /\ form' = r.val
                   /\ pc' = IF submitted THEN "whatif" ELSE "info"
                   /\ UNCHANGED exc
    /\ UNCHANGED <<call, ret, ret2, df, eff_low, shell_high, cycle_long, stove_select, latest, out>>

\* if submitted: the heat balance, the headline, the result table and chart,
\* the alerts
RunWhatIf ==
    /\ pc = "whatif"
    /\ LET f == form[1]
           Qin == calculate_heat_input(f.m_fuel, f.cv_fuel, f.eta_comb, f.m_air_comb,
                                       f.cp_air, f.t_air_comb, f.t_ambient)
           Q_fuel == Qin[1]
           Q_air_comb == Qin[2]
           Q_blast == calculate_heat_output(f.m_air, f.cp_air, f.t_hot_blast, f.t_ambient)
           Q_flue == calculate_flue_loss(f.m_flue, f.cp_flue, f.t_flue, f.t_ref)
           shell == calculate_shell_loss(f.k, f.A, f.t_internal, f.t_surface, f.d,
                                         f.eps, f.sigma, f.t_ambient)
       IN  IF shell.kind = "raise"
           THEN /\ exc' = shell.exc
                /\ pc' = "error"
                /\ UNCHANGED out
           ELSE LET Q_shell == shell.val[1]
                    eta_stove == calculate_efficiency(Q_blast, Q_fuel, Q_air_comb, Q_flue, Q_shell)
                IN  /\ out' = << [Q_fuel |-> Q_fuel, Q_air_comb |-> Q_air_comb,
                                  Q_blast |-> Q_blast, Q_flue |-> Q_flue, Q_shell |-> Q_shell,
                                  eta_stove |-> eta_stove,
                                  headline |-> Headline(eta_stove),
                                  result_df |-> [HeatInput |-> RAdd(Q_fuel, Q_air_comb),
                                                 UsefulHeat |-> Q_blast,
                                                 FlueLoss |-> Q_flue,
                                                 ShellLoss |-> Q_shell,
                                                 Efficiency |-> TableEfficiency(eta_stove)],
                                  alerts |-> evaluate_alerts(eta_stove, f.t_surface,
                                                             eff_low, shell_high)] >>
                    /\ pc' = "done"
                    /\ UNCHANGED exc
    /\ UNCHANGED <<call, ret, ret2, df, eff_low, shell_high, cycle_long, stove_select, latest, form>>

\* else: st.info("Run what-if to see updated projections.")
ShowInfo ==
    /\ pc = "info"
    /\ pc' = "done"
    /\ UNCHANGED <<call, ret, ret2, df, eff_low, shell_high, cycle_long, stove_select, latest, form, out, exc>>

Next ==
    \/ NoUpload
    \/ ReadCsv
    \/ Sliders
    \/ SelectStove
    \/ WhatIfForm
    \/ RunWhatIf
    \/ ShowInfo

Spec == Init /\ [][Next]_vars

(***************************************************************************)
(* Properties of the what-if run (Spec).                                   *)
(***************************************************************************)
\* the what-if results have been shown
Shown == pc = "done" /\ out # <<>>

\* C4: the alert set holds LowEfficiency exactly when eta < efficiency_low and
\* ShellOverheat exactly when t_surface > shell_temp_high, both strict, each
\* decided on its own; the cycle_duration_long threshold plays no part.
C4_AlertsMatchThresholds ==
    Shown =>
        LET eta == out[1].eta_stove
            ts == form[1].t_surface
            alerts == out[1].alerts
        IN  /\ alerts \subseteq {"LowEfficiency", "ShellOverheat"}
            /\ ("LowEfficiency" \in alerts) <=> (eta.n * eff_low.d < eff_low.n * eta.d)
            /\ ("ShellOverheat" \in alerts) <=> (ts.n > shell_high * ts.d)

\* both values sit exactly on their thresholds, the cycle-duration threshold
\* is off its default, and no alert is raised
C4_Witness ==
    /\ Shown
    /\ out[1].eta_stove = eff_low
    /\ form[1].t_surface = Num(shell_high)
    /\ cycle_long # THRESHOLDS.cycle_duration_long
    /\ out[1].alerts = {}

\* the latest record breaks an input invariant: d <= 0, eta_combustion or eps
\* outside [0, 1], or a negative flow or area
InvalidRecord(r) ==
    \/ r.d.n <= 0
    \/ r.eta_combustion.n < 0 \/ r.eta_combustion.n > r.eta_combustion.d
    \/ r.eps.n < 0 \/ r.eps.n > r.eps.d
    \/ r.m_fuel.n < 0 \/ r.m_air.n < 0 \/ r.m_flue.n < 0 \/ r.m_air_comb.n < 0
    \/ r.A.n < 0

C9_HeadlineEqualsTable ==
    Shown => out[1].headline = Format1f(out[1].result_df.Efficiency)

====
